---- MODULE Spec2Model ----
(***************************************************************************)
(* QrReaderPharmacy: the detection stabilisation and confirmation engine   *)
(* of the scanner screen (src/app/(tabs)/index.tsx, the ScannerScreen that *)
(* starts at line 557), the utility functions it inlines                   *)
(* (src/utils/qrDetectionUtils.ts) and the scannedItems store it persists  *)
(* to (src/unnamed/part_000, lines 71-112).                                *)
(*                                                                         *)
(* React state is modelled in two layers.  A state variable                *)
(* (detectionTracks, scannedCodes, ...) holds the value the next render    *)
(* will see: every setState call (a value or a functional updater) is      *)
(* applied to it in call order.  `view` holds what the onCodeScanned       *)
(* closure captured at the last render (the useCallback dependencies of    *)
(* lines 764): the callback reads view.detectionTracks and                 *)
(* view.scannedCodes, never the pending value.  Render refreshes view.     *)
(*                                                                         *)
(* Track objects are mutated in place by the callback (lines 687-689), and *)
(* the arrays only hold references ([...detectionTracks] is a shallow      *)
(* copy), so tracks live in `heap` and the arrays are sequences of         *)
(* references.                                                             *)
(*                                                                         *)
(* Numbers: coordinates are integers; a ratio threshold r = n/d is         *)
(* compared as a*d >= n*b instead of a/b >= r, and centres (x + width/2)   *)
(* are kept doubled (2x + width), so no rounding enters the screen's       *)
(* model.  The overlap ratio of the utilities is modelled a second time    *)
(* with rounded arithmetic (calculateIoURounded), for rectangles whose     *)
(* coordinates are not integers.                                           *)
(*                                                                         *)
(* Left out, as state nothing in the engine reads back: barcodeBoxes (the  *)
(* transient overlay boxes of lines 720 and 723), the timestamp fields of  *)
(* boxes and stored items, and the timeout of a successful call (line 731, *)
(* 1800 ms), whose callback only removes the transient box.                *)
(***************************************************************************)
EXTENDS Integers, Sequences, FiniteSets, TLC

VARIABLES
    now,               \* Date.now(), in ms
    sweepDue,          \* the setInterval of line 635 has a tick to deliver
    threshold,         \* CONFIRMATION_THRESHOLD of the build (config.confirmationThreshold)
    heap,              \* track objects by reference
    detectionTracks,   \* React state: sequence of track references
    scannedCodes,      \* React state: set of codes
    permanentMarkers,  \* React state: Map code -> BarcodeBox, as the sequence of its values
    view,              \* what the onCodeScanned closure captured at the last render
    pc,                \* "idle", or "scan" while onCodeScanned runs its for loop
    newTracks,         \* onCodeScanned's local array (line 650)
    frameNow,          \* onCodeScanned's local `now` (line 648)
    codes,             \* onCodeScanned's argument: the detections iterated so far
    issued,            \* history: addScan calls issued by the running callback
    scannedItems,      \* the store's in-memory list
    storage,           \* AsyncStorage item 'scanned_items'
    calls,             \* addScan calls awaiting AsyncStorage.setItem
    timers,            \* pending setTimeout callbacks of lines 722-731 (failed calls)
    delivered,         \* history: detections delivered so far, over all batches
    log,               \* history: addScan calls, rollbacks and expiries, in order
    clearing,          \* the store's clearAll awaits AsyncStorage.removeItem
    inRect1,           \* first rectangle handed to a geometry function on its own
    inRect2,           \* second rectangle handed to calculateIoU on its own
    outIoU,            \* what calculateIoU(inRect1, inRect2) returned
    outValid,          \* what isValidQRDetection(inRect1, ...) returned
    inTracks,          \* track array handed to findMatchingTrack on its own
    inDet,             \* detection (value, frame) handed to findMatchingTrack
    outMatch,          \* what findMatchingTrack and the inline match loop returned
    loaded,            \* the mount effect's loadData has run (line 587)
    products,          \* products store: in-memory Record gtin -> reference of a Product
    pheap,             \* products store: Product objects by reference
    saved,             \* AsyncStorage item 'scanned_products'
    pcalls,            \* products store: addScan calls awaiting AsyncStorage.setItem
    plog               \* history: the products store's addScan calls and their outcome

vars == <<now, sweepDue, threshold, heap, detectionTracks, scannedCodes,
          permanentMarkers, view, pc, newTracks, frameNow,
          codes, issued, scannedItems, storage, calls, timers, delivered, log,
          clearing, inRect1, inRect2, outIoU, outValid, inTracks, inDet, outMatch,
          loaded, products, pheap, saved, pcalls, plog>>

\* the variables of the matcher exercised on its own
matcher == <<inTracks, inDet, outMatch>>

\* the variables of the products store (src/hooks/useScanStore.ts) and of loadData
productStore == <<loaded, products, pheap, saved, pcalls, plog>>

\* the variables of the utility functions and of the products store, which the
\* scanner screen of lines 557-766 leaves alone
geom == <<inRect1, inRect2, outIoU, outValid, matcher, productStore>>

----------------------------------------------------------------------------
(* Bounds of the model *)

\* detections the camera delivers in all, over any number of frame batches
MaxDetections == 3
\* periods of the expiry interval that elapse
MaxTicks == 3

----------------------------------------------------------------------------
(* Program constants *)

SCREEN_W == 400
SCREEN_H == 800
VF_WIDTH_RATIO_PCT == 80
VF_HEIGHT_RATIO_PCT == 40
VF_TOP_SHIFT == 150
CONFIRMATION_THRESHOLD == 1
CONFIRMATION_THRESHOLD_V1 == 3
IOU_THRESHOLD_NUM == 3
IOU_THRESHOLD_DEN == 100
MIN_BOX_AREA_RATIO_DEN == 10000
MIN_ASPECT_RATIO_DEN == 20
MAX_ASPECT_RATIO == 2
TRACK_TIMEOUT == 3000
SWEEP_INTERVAL == 1000
BOX_DELAY_FAIL == 500
GROUP_SIZE == 4
ROW_TOLERANCE == 5

Max(a, b) == IF a >= b THEN a ELSE b
Min(a, b) == IF a <= b THEN a ELSE b
Abs(a) == IF a >= 0 THEN a ELSE 0 - a

vfW == (SCREEN_W * VF_WIDTH_RATIO_PCT) \div 100
vfH == (SCREEN_H * VF_HEIGHT_RATIO_PCT) \div 100
vfL == (SCREEN_W - vfW) \div 2
vfT == (SCREEN_H - vfH) \div 2 - VF_TOP_SHIFT
viewfinderRect == [left |-> vfL, top |-> vfT, width |-> vfW, height |-> vfH]

----------------------------------------------------------------------------
(* Inputs: what the camera can hand to onCodeScanned *)

Rect(x, y, w, h) == [x |-> x, y |-> y, width |-> w, height |-> h]

CodeA == <<"A", "B", "C", "-", "0", "0", "1">>
CodeB == <<"X", "Y", "Z">>
EmptyValue == <<>>
Codes == {CodeA, CodeB}

NoFrame == [none |-> TRUE]
\* a function on its own has not returned yet
NoResult == <<>>
\* the matcher has not been handed a detection
NoDetection == [none |-> TRUE]
R1 == Rect(150, 150, 50, 50)
R2 == Rect(180, 150, 50, 50)
R3 == Rect(210, 150, 50, 50)
RSmall == Rect(150, 150, 5, 5)
ROut == Rect(0, 0, 50, 50)
RWide == Rect(150, 150, 120, 50)
ValidFrames == {R1, R2, R3}
RejectedFrames == {RSmall, ROut, RWide}

Det(v, f) == [value |-> v, frame |-> f]
Detections ==
    {Det(CodeA, f) : f \in ValidFrames}
        \cup {Det(CodeB, R1)}
        \cup {Det(CodeA, f) : f \in RejectedFrames}
        \cup {Det(EmptyValue, R1), Det(CodeA, NoFrame)}

----------------------------------------------------------------------------
(* Geometry and validation *)

\* calculateIoU as the pair <<intersection, union>>; <<0, 1>> is the early `return 0`
calculateIoU(rect1, rect2) ==
    LET x1 == Max(rect1.x, rect2.x)
        y1 == Max(rect1.y, rect2.y)
        x2 == Min(rect1.x + rect1.width, rect2.x + rect2.width)
        y2 == Min(rect1.y + rect1.height, rect2.y + rect2.height)
        intersection == (x2 - x1) * (y2 - y1)
        area1 == rect1.width * rect1.height
        area2 == rect2.width * rect2.height
        union == area1 + area2 - intersection
    IN  IF x2 < x1 \/ y2 < y1 THEN <<0, 1>> ELSE <<intersection, union>>

\* iou >= IOU_THRESHOLD
IoUMatches(iou) == iou[1] * IOU_THRESHOLD_DEN >= IOU_THRESHOLD_NUM * iou[2]

\* a containment test with exclusive bounds
pointInRect_Exclusive(x2, y2, rect) ==
    /\ x2 > 2 * rect.left
    /\ x2 < 2 * (rect.left + rect.width)
    /\ y2 > 2 * rect.top
    /\ y2 < 2 * (rect.top + rect.height)

\* pointInRect on doubled coordinates (x2 = 2x, y2 = 2y)
pointInRect(x2, y2, rect) ==
    /\ x2 >= 2 * rect.left
    /\ x2 <= 2 * (rect.left + rect.width)
    /\ y2 >= 2 * rect.top
    /\ y2 <= 2 * (rect.top + rect.height)

inViewfinder(frame) ==
    pointInRect(2 * frame.x + frame.width, 2 * frame.y + frame.height, viewfinderRect)

\* boxArea / screenArea < MIN_BOX_AREA_RATIO
BoxTooSmall(frame) ==
    frame.width * frame.height * MIN_BOX_AREA_RATIO_DEN < SCREEN_W * SCREEN_H

\* an aspect test that forgot the upper limit
BadAspect_NoMax(frame) == frame.width * MIN_ASPECT_RATIO_DEN < frame.height

\* aspectRatio < MIN_ASPECT_RATIO || aspectRatio > MAX_ASPECT_RATIO
BadAspect(frame) ==
    \/ frame.width * MIN_ASPECT_RATIO_DEN < frame.height
    \/ frame.width > MAX_ASPECT_RATIO * frame.height

\* the DetectionConfig the screen's constants amount to (ratios as denominators)
screenConfig ==
    [minBoxAreaRatioDen |-> MIN_BOX_AREA_RATIO_DEN,
     minAspectRatioDen |-> MIN_ASPECT_RATIO_DEN,
     maxAspectRatio |-> MAX_ASPECT_RATIO]

\* isValidQRDetection of qrDetectionUtils.ts, its returns in order (centerX and
\* centerY doubled)
isValidQRDetection(frame, viewfinder, screenWidth, screenHeight, config) ==
    LET centerX == 2 * frame.x + frame.width
        centerY == 2 * frame.y + frame.height
        screenArea == screenWidth * screenHeight
        boxArea == frame.width * frame.height
    IN  IF ~pointInRect(centerX, centerY, viewfinder) THEN FALSE
        ELSE IF boxArea * config.minBoxAreaRatioDen < screenArea THEN FALSE
        ELSE IF \/ frame.width * config.minAspectRatioDen < frame.height
                \/ frame.width > config.maxAspectRatio * frame.height
             THEN FALSE
        ELSE TRUE

\* filters that would let a detection without value through
PassesFilters_EmptyValueAllowed(d) ==
    /\ d.frame # NoFrame
    /\ inViewfinder(d.frame)
    /\ ~BoxTooSmall(d.frame)
    /\ ~BadAspect(d.frame)

\* the detection passes line 654 and the three quality filters
PassesFilters(d) ==
    /\ d.value # EmptyValue
    /\ d.frame # NoFrame
    /\ inViewfinder(d.frame)
    /\ ~BoxTooSmall(d.frame)
    /\ ~BadAspect(d.frame)

----------------------------------------------------------------------------
(* Tracks *)

\* every track is created by one detection
TrackIds == 1..MaxDetections
NoTrack == [none |-> TRUE]

Refs(s) == {s[i] : i \in 1..Len(s)}

\* first index i of tracks with heap[tracks[i]].code = data and IoU >= threshold; 0 if none
matchedIndex(h, tracks, data, frame) ==
    LET hits == {i \in 1..Len(tracks) :
                    /\ h[tracks[i]].code = data
                    /\ IoUMatches(calculateIoU(h[tracks[i]].frame, frame))}
    IN  IF hits = {} THEN 0 ELSE CHOOSE i \in hits : \A j \in hits : i <= j

\* an update that would average the old and the new position
updateTrack_Smoothed(track, frame, timestamp) ==
    [track EXCEPT !.hitCount = @ + 1,
                  !.frame = Rect((track.frame.x + frame.x) \div 2,
                                 (track.frame.y + frame.y) \div 2,
                                 frame.width, frame.height),
                  !.lastSeen = timestamp]

\* matchedTrack.hitCount++; matchedTrack.frame = {...frame}; matchedTrack.lastSeen = now
updateTrack(track, frame, timestamp) ==
    [track EXCEPT !.hitCount = @ + 1, !.frame = frame, !.lastSeen = timestamp]

\* a creation that would not count the first sighting
createTrack_NoHit(code, frame, timestamp) ==
    [code |-> code, frame |-> frame, hitCount |-> 0, lastSeen |-> timestamp]

createTrack(code, frame, timestamp) ==
    [code |-> code, frame |-> frame, hitCount |-> 1, lastSeen |-> timestamp]

\* a confirmation test that is off by one
isQRConfirmed_OffByOne(track, n) == track.hitCount >= n - 1

isQRConfirmed(track, n) == track.hitCount >= n

\* a filter that keeps the track whose age equals the timeout
cleanupExpiredTracks_Inclusive(h, tracks, currentTime, timeout) ==
    SelectSeq(tracks, LAMBDA r : currentTime - h[r].lastSeen <= timeout)

\* prev.filter((track) => now - track.lastSeen < TRACK_TIMEOUT)
cleanupExpiredTracks(h, tracks, currentTime, timeout) ==
    SelectSeq(tracks, LAMBDA r : currentTime - h[r].lastSeen < timeout)

\* objects no array refers to any more are garbage
Collect(h, live) == [r \in TrackIds |-> IF r \in live THEN h[r] ELSE NoTrack]

----------------------------------------------------------------------------
(* Region assigner *)

centerY2(box) == 2 * box.frame.y + box.frame.height
centerX2(box) == 2 * box.frame.x + box.frame.width

\* the sort comparator of assignRegionsToBoxes, doubled (its sign is what sort reads)
compareBoxes(a, b) ==
    IF Abs(centerY2(a) - centerY2(b)) > 2 * ROW_TOLERANCE
    THEN centerY2(a) - centerY2(b)
    ELSE centerX2(a) - centerX2(b)

\* one insertion step of a stable sort: box goes after the last element not greater than it
InsertSorted(sorted, box) ==
    LET notGreater == {j \in 1..Len(sorted) : compareBoxes(sorted[j], box) <= 0}
        k == IF notGreater = {} THEN 0
             ELSE CHOOSE j \in notGreater : \A i \in notGreater : i <= j
    IN  SubSeq(sorted, 1, k) \o <<box>> \o SubSeq(sorted, k + 1, Len(sorted))

RECURSIVE SortBoxes(_)
SortBoxes(boxes) ==
    IF boxes = <<>> THEN <<>>
    ELSE InsertSorted(SortBoxes(SubSeq(boxes, 1, Len(boxes) - 1)), boxes[Len(boxes)])

\* an assigner that counts sorted positions from one
assignRegionsToBoxes_FromOne(boxes) ==
    LET sorted == SortBoxes(boxes)
    IN  [idx \in 1..Len(sorted) |->
            [id |-> sorted[idx].id, data |-> sorted[idx].data,
             color |-> sorted[idx].color, frame |-> sorted[idx].frame,
             regionIndex |-> idx \div GROUP_SIZE,
             indexInRegion |-> idx % GROUP_SIZE]]

assignRegionsToBoxes(boxes) ==
    LET sorted == SortBoxes(boxes)
    IN  [idx \in 1..Len(sorted) |->
            [id |-> sorted[idx].id, data |-> sorted[idx].data,
             color |-> sorted[idx].color, frame |-> sorted[idx].frame,
             regionIndex |-> (idx - 1) \div GROUP_SIZE,
             indexInRegion |-> (idx - 1) % GROUP_SIZE]]

HasMarker(markers, data) == \E i \in 1..Len(markers) : markers[i].data = data

\* an updater that forgot the has(data) test
UpdateMarkers_NoDedup(prev, data, newBox) ==
    assignRegionsToBoxes(Append(prev, [newBox EXCEPT !.id = <<"permanent", data>>]))

\* the setPermanentMarkers updater of lines 735-747
UpdateMarkers(prev, data, newBox) ==
    LET updated == IF HasMarker(prev, data) THEN prev
                   ELSE Append(prev, [newBox EXCEPT !.id = <<"permanent", data>>])
    IN  assignRegionsToBoxes(updated)

----------------------------------------------------------------------------
(* Scan coordinator: onCodeScanned, one detection at a time *)

\* a split that would keep everything before the last separator
productIdOf_BeforeLastDash(data) ==
    LET dashes == {i \in 1..Len(data) : data[i] = "-"}
    IN  IF dashes = {} THEN data
        ELSE SubSeq(data, 1, (CHOOSE i \in dashes : \A j \in dashes : i >= j) - 1)

\* data.split("-")[0]
productIdOf(data) ==
    LET dashes == {i \in 1..Len(data) : data[i] = "-"}
    IN  IF dashes = {} THEN data
        ELSE SubSeq(data, 1, (CHOOSE i \in dashes : \A j \in dashes : i <= j) - 1)

Live(tracks, v, local) == Refs(tracks) \cup Refs(v.detectionTracks) \cup Refs(local)

FreeRefs == TrackIds \ Live(detectionTracks, view, newTracks)

\* the store's addScan up to its await: the list it will write and publish
addScanCurrent(items, code, productId) ==
    Append(items, [code |-> code, productId |-> productId])

\* the products store: what it is called with
MaxScans == 3
Serials == {"S1", "S2"}
Gtins == {"G1", "G2"}
ProductIds == 1..MaxScans
NoProduct == [none |-> TRUE]

\* products: {} (line 20)
EmptyRecord == [gtin \in {} |-> 0]

\* the store as created, nothing saved by an earlier session
InitProducts ==
    /\ loaded = FALSE
    /\ products = EmptyRecord
    /\ pheap = [r \in ProductIds |-> NoProduct]
    /\ saved = NoResult
    /\ pcalls = <<>>
    /\ plog = <<>>

Init ==
    /\ now = 0
    /\ sweepDue = FALSE
    /\ threshold \in {CONFIRMATION_THRESHOLD, CONFIRMATION_THRESHOLD_V1}
    /\ heap = [r \in TrackIds |-> NoTrack]
    /\ detectionTracks = <<>>
    /\ scannedCodes = {}
    /\ permanentMarkers = <<>>
    /\ view = [detectionTracks |-> <<>>, scannedCodes |-> {}]
    /\ pc = "idle"
    /\ newTracks = <<>>
    /\ frameNow = 0
    /\ codes = <<>>
    /\ issued = 0
    /\ scannedItems = <<>>
    /\ storage = <<>>
    /\ calls = <<>>
    /\ timers = <<>>
    /\ delivered = 0
    /\ log = <<>>
    /\ clearing = FALSE
    /\ inRect1 = NoFrame
    /\ inRect2 = NoFrame
    /\ outIoU = NoResult
    /\ outValid = NoResult
    /\ inTracks = <<>>
    /\ inDet = NoDetection
    /\ outMatch = NoResult
    /\ InitProducts

\* a callback that would not start while a persistence call is pending
BeginFrame_Blocking ==
    /\ UNCHANGED <<clearing, geom>>
    /\ pc = "idle"
    /\ calls = <<>>
    /\ delivered < MaxDetections
    /\ pc' = "scan"
    /\ frameNow' = now
    /\ newTracks' = view.detectionTracks
    /\ codes' = <<>>
    /\ issued' = 0
    /\ UNCHANGED <<now, sweepDue, threshold, heap, detectionTracks, scannedCodes,
                   permanentMarkers, view, scannedItems, storage,
                   calls, timers, delivered, log>>

\* lines 645-650: the callback starts on what its closure captured
BeginFrame ==
    /\ UNCHANGED <<clearing, geom>>
    /\ pc = "idle"
    /\ delivered < MaxDetections
    /\ pc' = "scan"
    /\ frameNow' = now
    /\ newTracks' = view.detectionTracks
    /\ codes' = <<>>
    /\ issued' = 0
    /\ UNCHANGED <<now, sweepDue, threshold, heap, detectionTracks, scannedCodes,
                   permanentMarkers, view, scannedItems, storage,
                   calls, timers, delivered, log>>

\* lines 654-669: the detection is dropped by a `continue`
Skipped(d) == ~PassesFilters(d) \/ d.value \in view.scannedCodes

\* lines 652-760: one iteration of the for loop
ProcessDetection(d) ==
    /\ UNCHANGED <<clearing, geom>>
    /\ pc = "scan"
    /\ delivered < MaxDetections
    /\ delivered' = delivered + 1
    /\ codes' = Append(codes, d)
    /\ UNCHANGED <<now, sweepDue, threshold, detectionTracks, permanentMarkers,
                   view, pc, frameNow, scannedItems, storage, timers>>
    /\ IF Skipped(d)
       THEN UNCHANGED <<heap, newTracks, scannedCodes, calls, issued, log>>
       ELSE LET data == d.value
                frame == d.frame
                mi == matchedIndex(heap, newTracks, data, frame)
            IN  IF mi # 0
                THEN LET ref == newTracks[mi]
                         matchedTrack == updateTrack(heap[ref], frame, frameNow)
                         productId == productIdOf(data)
                     IN  /\ heap' = [heap EXCEPT ![ref] = matchedTrack]
                         /\ UNCHANGED newTracks
                         /\ IF isQRConfirmed(matchedTrack, threshold)
                                  /\ data \notin view.scannedCodes
                            THEN /\ scannedCodes' = scannedCodes \cup {data}
                                 /\ calls' = Append(calls,
                                        [data |-> data, productId |-> productId,
                                         frame |-> frame,
                                         current |-> addScanCurrent(scannedItems, data,
                                                                    productId)])
                                 /\ issued' = issued + 1
                                 /\ log' = Append(log,
                                        [op |-> "addScan", code |-> data,
                                         productId |-> productId,
                                         hitCount |-> matchedTrack.hitCount])
                            ELSE UNCHANGED <<scannedCodes, calls, issued, log>>
                ELSE /\ LET ref == CHOOSE r \in FreeRefs : \A q \in FreeRefs : r <= q
                        IN  /\ heap' = [heap EXCEPT ![ref] = createTrack(data, frame, frameNow)]
                            /\ newTracks' = Append(newTracks, ref)
                     /\ UNCHANGED <<scannedCodes, calls, issued, log>>

\* line 646 (an empty batch returns at once) and line 762
EndFrame ==
    /\ UNCHANGED <<clearing, geom>>
    /\ pc = "scan"
    /\ pc' = "idle"
    /\ newTracks' = <<>>
    /\ frameNow' = 0
    /\ codes' = <<>>
    /\ issued' = 0
    /\ IF codes = <<>>
       THEN UNCHANGED <<detectionTracks, heap>>
       ELSE /\ detectionTracks' = newTracks
            /\ heap' = Collect(heap, Live(newTracks, view, <<>>))
    /\ UNCHANGED <<now, sweepDue, threshold, scannedCodes, permanentMarkers,
                   view, scannedItems, storage, calls, timers, delivered, log>>

\* React re-renders: the callback is re-created over the current state
Render ==
    /\ UNCHANGED <<clearing, geom>>
    /\ pc = "idle"
    /\ view # [detectionTracks |-> detectionTracks, scannedCodes |-> scannedCodes]
    /\ view' = [detectionTracks |-> detectionTracks, scannedCodes |-> scannedCodes]
    /\ heap' = Collect(heap, Refs(detectionTracks))
    /\ UNCHANGED <<now, sweepDue, threshold, detectionTracks, scannedCodes,
                   permanentMarkers, pc, newTracks, frameNow, codes, issued,
                   scannedItems, storage, calls, timers, delivered, log>>

\* one period of the expiry interval elapses
Tick ==
    /\ UNCHANGED <<clearing, geom>>
    /\ pc = "idle"
    /\ now < MaxTicks * SWEEP_INTERVAL
    /\ now' = now + SWEEP_INTERVAL
    /\ sweepDue' = TRUE
    /\ UNCHANGED <<threshold, heap, detectionTracks, scannedCodes, permanentMarkers,
                   view, pc, newTracks, frameNow, codes, issued,
                   scannedItems, storage, calls, timers, delivered, log>>

\* the tracks a sweep drops, as log entries in registry order
ExpiredEntries(h, tracks, currentTime, timeout) ==
    LET gone == SelectSeq(tracks, LAMBDA r : ~(currentTime - h[r].lastSeen < timeout))
    IN  [i \in 1..Len(gone) |->
            [op |-> "expire", code |-> h[gone[i]].code, hitCount |-> h[gone[i]].hitCount]]

\* lines 635-638: the interval callback
Sweep ==
    /\ UNCHANGED <<clearing, geom>>
    /\ pc = "idle"
    /\ sweepDue
    /\ sweepDue' = FALSE
    /\ detectionTracks' = cleanupExpiredTracks(heap, detectionTracks, now, TRACK_TIMEOUT)
    /\ heap' = Collect(heap, Live(detectionTracks', view, <<>>))
    /\ log' = log \o ExpiredEntries(heap, detectionTracks, now, TRACK_TIMEOUT)
    /\ UNCHANGED <<now, threshold, scannedCodes, permanentMarkers, view,
                   pc, newTracks, frameNow, codes, issued, scannedItems, storage, calls,
                   timers, delivered>>

\* the box of lines 711-718
newBoxOf(data, frame, scanSuccess) ==
    [id |-> <<"box", data>>, data |-> data,
     color |-> IF scanSuccess THEN "accent" ELSE "danger",
     frame |-> frame]

RemoveAt(s, i) == SubSeq(s, 1, i - 1) \o SubSeq(s, i + 1, Len(s))

\* a completion that draws the permanent marker whatever addScan returned
CompleteAddScan_MarkAlways(i, scanSuccess) ==
    /\ UNCHANGED <<clearing, geom>>
    /\ pc = "idle"
    /\ i \in 1..Len(calls)
    /\ LET call == calls[i]
           newBox == newBoxOf(call.data, call.frame, scanSuccess)
       IN  /\ calls' = RemoveAt(calls, i)
           /\ permanentMarkers' = UpdateMarkers(permanentMarkers, call.data, newBox)
           /\ IF scanSuccess
              THEN /\ storage' = call.current
                   /\ scannedItems' = call.current
                   /\ UNCHANGED timers
              ELSE /\ timers' = Append(timers,
                          [data |-> call.data, due |-> now + BOX_DELAY_FAIL])
                   /\ UNCHANGED <<storage, scannedItems>>
    /\ UNCHANGED <<now, sweepDue, threshold, heap, detectionTracks, scannedCodes, view,
                   pc, newTracks, frameNow, codes, issued, delivered, log>>

\* a completion that schedules no rollback for a rejected call
CompleteAddScan_NoTimer(i, scanSuccess) ==
    /\ UNCHANGED <<clearing, geom>>
    /\ pc = "idle"
    /\ i \in 1..Len(calls)
    /\ LET call == calls[i]
           newBox == newBoxOf(call.data, call.frame, scanSuccess)
       IN  /\ calls' = RemoveAt(calls, i)
           /\ IF scanSuccess
              THEN /\ storage' = call.current
                   /\ scannedItems' = call.current
                   /\ permanentMarkers' = UpdateMarkers(permanentMarkers, call.data, newBox)
                   /\ UNCHANGED timers
              ELSE UNCHANGED <<timers, storage, scannedItems, permanentMarkers>>
    /\ UNCHANGED <<now, sweepDue, threshold, heap, detectionTracks, scannedCodes, view,
                   pc, newTracks, frameNow, codes, issued, delivered, log>>

\* lines 698-749 after the await, with the store's addScan after its await.
\* A successful call's timer only removes its transient box and is not kept.
CompleteAddScan(i, scanSuccess) ==
    /\ UNCHANGED <<clearing, geom>>
    /\ pc = "idle"
    /\ i \in 1..Len(calls)
    /\ LET call == calls[i]
           newBox == newBoxOf(call.data, call.frame, scanSuccess)
       IN  /\ calls' = RemoveAt(calls, i)
           /\ IF scanSuccess
              THEN /\ storage' = call.current
                   /\ scannedItems' = call.current
                   /\ permanentMarkers' = UpdateMarkers(permanentMarkers, call.data, newBox)
                   /\ UNCHANGED timers
              ELSE /\ timers' = Append(timers,
                          [data |-> call.data, due |-> now + BOX_DELAY_FAIL])
                   /\ UNCHANGED <<storage, scannedItems, permanentMarkers>>
    /\ UNCHANGED <<now, sweepDue, threshold, heap, detectionTracks, scannedCodes, view,
                   pc, newTracks, frameNow, codes, issued, delivered, log>>

\* a timeout callback that forgot to unmark the code
FireTimer_NoRollback(i) ==
    /\ UNCHANGED <<clearing, geom>>
    /\ pc = "idle"
    /\ i \in 1..Len(timers)
    /\ timers[i].due <= now
    /\ timers' = RemoveAt(timers, i)
    /\ log' = Append(log, [op |-> "rollback", code |-> timers[i].data])
    /\ UNCHANGED <<now, sweepDue, threshold, heap, detectionTracks, scannedCodes,
                   permanentMarkers, view, pc, newTracks, frameNow, codes, issued,
                   scannedItems, storage, calls, delivered>>

\* lines 722-731: the setTimeout callback of a failed call
FireTimer(i) ==
    /\ UNCHANGED <<clearing, geom>>
    /\ pc = "idle"
    /\ i \in 1..Len(timers)
    /\ timers[i].due <= now
    /\ timers' = RemoveAt(timers, i)
    /\ scannedCodes' = scannedCodes \ {timers[i].data}
    /\ log' = Append(log, [op |-> "rollback", code |-> timers[i].data])
    /\ UNCHANGED <<now, sweepDue, threshold, heap, detectionTracks, permanentMarkers,
                   view, pc, newTracks, frameNow, codes, issued, scannedItems, storage,
                   calls, delivered>>

\* lines 888-893: the Clear Markers button
ClearMarkers ==
    /\ UNCHANGED <<clearing, geom>>
    /\ pc = "idle"
    /\ permanentMarkers' = <<>>
    /\ scannedCodes' = {}
    /\ detectionTracks' = <<>>
    /\ heap' = Collect(heap, Refs(view.detectionTracks))
    /\ UNCHANGED <<now, sweepDue, threshold, view, pc, newTracks, frameNow, codes,
                   issued, scannedItems, storage, calls, timers, delivered, log>>

\* line 940: the Clear All button calls the store's clearAll, which runs up to
\* its await (removeItem is under way).  A second press while one is under way
\* would clear the same things and is not modelled.
ClearAll ==
    /\ pc = "idle"
    /\ ~clearing
    /\ clearing' = TRUE
    /\ UNCHANGED <<now, sweepDue, threshold, heap, detectionTracks, scannedCodes,
                   permanentMarkers, view, pc, newTracks, frameNow, codes, issued,
                   scannedItems, storage, calls, timers, delivered, log, geom>>

\* the store's clearAll after its await: the key is removed and the list emptied;
\* a rejected removeItem leaves both as they are
CompleteClearAll(removed) ==
    /\ pc = "idle"
    /\ clearing
    /\ clearing' = FALSE
    /\ IF removed
       THEN storage' = <<>> /\ scannedItems' = <<>>
       ELSE UNCHANGED <<storage, scannedItems>>
    /\ UNCHANGED <<now, sweepDue, threshold, heap, detectionTracks, scannedCodes,
                   permanentMarkers, view, pc, newTracks, frameNow, codes, issued,
                   calls, timers, delivered, log, geom>>

Next ==
    \/ BeginFrame
    \/ \E d \in Detections : ProcessDetection(d)
    \/ EndFrame
    \/ Render
    \/ Tick
    \/ Sweep
    \/ \E i \in 1..Len(calls), ok \in BOOLEAN : CompleteAddScan(i, ok)
    \/ \E i \in 1..Len(timers) : FireTimer(i)
    \/ ClearMarkers

Spec == Init /\ [][Next]_vars

----------------------------------------------------------------------------
(* The geometry functions on their own *)

\* The code's numbers are IEEE 754 doubles: every +, - and * returns the exact
\* result rounded to the nearest number with 53 significant bits (ties to the
\* even significand).  The screen model above works on integers that small
\* that no operation rounds.  Here the functions are called with any numbers,
\* and the model keeps MantissaBits significant bits instead of 53, so that
\* rounding sets in at small numbers; a number is an integer count of the
\* smallest unit.

\* bound: significant bits an operation keeps
MantissaBits == 3

Pow2(n) == 2 ^ n

\* how many low bits of v >= 0 do not fit
RECURSIVE ExcessBits(_)
ExcessBits(v) == IF v < Pow2(MantissaBits) THEN 0 ELSE 1 + ExcessBits(v \div 2)

\* round to nearest, ties to even, of the exact result v
Round(v) ==
    LET a == Abs(v)
        step == Pow2(ExcessBits(a))
        q == a \div step
        r == a % step
        m == IF 2 * r < step THEN q
             ELSE IF 2 * r > step THEN q + 1
             ELSE IF q % 2 = 0 THEN q ELSE q + 1
    IN  IF v >= 0 THEN m * step ELSE 0 - m * step

\* a union that counts the first area twice
calculateIoURounded_FirstAreaTwice(rect1, rect2) ==
    LET x1 == Max(rect1.x, rect2.x)
        y1 == Max(rect1.y, rect2.y)
        x2 == Min(Round(rect1.x + rect1.width), Round(rect2.x + rect2.width))
        y2 == Min(Round(rect1.y + rect1.height), Round(rect2.y + rect2.height))
        intersection == Round(Round(x2 - x1) * Round(y2 - y1))
        area1 == Round(rect1.width * rect1.height)
        union == Round(Round(area1 + area1) - intersection)
    IN  IF x2 < x1 \/ y2 < y1 THEN <<0, 1>> ELSE <<intersection, union>>

\* calculateIoU with every operation rounded, as the pair <<intersection, union>>
\* of the final division (<<0, 1>> is the early `return 0`).  The division rounds
\* too, but to a quotient that is 0, below 1, 1 or above 1 exactly when the
\* exact quotient is.
calculateIoURounded(rect1, rect2) ==
    LET x1 == Max(rect1.x, rect2.x)
        y1 == Max(rect1.y, rect2.y)
        x2 == Min(Round(rect1.x + rect1.width), Round(rect2.x + rect2.width))
        y2 == Min(Round(rect1.y + rect1.height), Round(rect2.y + rect2.height))
        intersection == Round(Round(x2 - x1) * Round(y2 - y1))
        area1 == Round(rect1.width * rect1.height)
        area2 == Round(rect2.width * rect2.height)
        union == Round(Round(area1 + area2) - intersection)
    IN  IF x2 < x1 \/ y2 < y1 THEN <<0, 1>> ELSE <<intersection, union>>

\* bound: coordinates 0..MaxCoord and sides 1..MaxCoord of the small rectangles
MaxCoord == 2
GridRects == {Rect(x, y, w, h) : x, y \in 0..MaxCoord, w, h \in 1..MaxCoord}
\* rectangles whose right edge x + width needs one bit more than an operation keeps
FarRects ==
    {Rect(x, 0, w, 1) : x \in (Pow2(MantissaBits) - 3)..(Pow2(MantissaBits) - 1),
                        w \in {3, 4}}
IoURects == GridRects \cup FarRects

\* frames around the edges of the viewfinder (left 40, top 90, 320 x 320) and
\* around the area and aspect limits
EdgeXs == {14, 15, 150, 335, 336}
EdgeYs == {64, 65, 150, 385, 386}
EdgeSizes == {<<50, 50>>, <<51, 50>>, <<8, 4>>, <<7, 4>>, <<100, 50>>, <<101, 50>>,
              <<5, 100>>, <<5, 101>>}
ValidatorFrames == {Rect(x, y, s[1], s[2]) : x \in EdgeXs, y \in EdgeYs, s \in EdgeSizes}

InitGeometry ==
    /\ now = 0
    /\ sweepDue = FALSE
    /\ threshold = CONFIRMATION_THRESHOLD
    /\ heap = [r \in TrackIds |-> NoTrack]
    /\ detectionTracks = <<>>
    /\ scannedCodes = {}
    /\ permanentMarkers = <<>>
    /\ view = [detectionTracks |-> <<>>, scannedCodes |-> {}]
    /\ pc = "idle"
    /\ newTracks = <<>>
    /\ frameNow = 0
    /\ codes = <<>>
    /\ issued = 0
    /\ scannedItems = <<>>
    /\ storage = <<>>
    /\ calls = <<>>
    /\ timers = <<>>
    /\ delivered = 0
    /\ log = <<>>
    /\ clearing = FALSE
    /\ \/ inRect1 \in IoURects /\ inRect2 \in IoURects
       \/ inRect1 \in ValidatorFrames /\ inRect2 = NoFrame
    /\ outIoU = NoResult
    /\ outValid = NoResult
    /\ inTracks = <<>>
    /\ inDet = NoDetection
    /\ outMatch = NoResult
    /\ InitProducts

\* calculateIoU(inRect1, inRect2) is called (qrDetectionUtils.ts lines 52-66)
ApplyIoU ==
    /\ inRect2 # NoFrame
    /\ outIoU = NoResult
    /\ outIoU' = calculateIoURounded(inRect1, inRect2)
    /\ UNCHANGED <<now, sweepDue, threshold, heap, detectionTracks, scannedCodes,
                   permanentMarkers, view, pc, newTracks, frameNow, codes, issued,
                   scannedItems, storage, calls, timers, delivered, log, clearing,
                   inRect1, inRect2, outValid, matcher, productStore>>

\* the validator is called on inRect1: outValid is the pair of what the utility
\* function and the inline filters of onCodeScanned (lines 658-667) answer
ApplyValidator ==
    /\ outValid = NoResult
    /\ outValid' =
          <<isValidQRDetection(inRect1, viewfinderRect, SCREEN_W, SCREEN_H,
                               screenConfig),
            inViewfinder(inRect1) /\ ~BoxTooSmall(inRect1) /\ ~BadAspect(inRect1)>>
    /\ UNCHANGED <<now, sweepDue, threshold, heap, detectionTracks, scannedCodes,
                   permanentMarkers, view, pc, newTracks, frameNow, codes, issued,
                   scannedItems, storage, calls, timers, delivered, log, clearing,
                   inRect1, inRect2, outIoU, matcher, productStore>>

NextGeometry == ApplyIoU \/ ApplyValidator

SpecGeometry == InitGeometry /\ [][NextGeometry]_vars

----------------------------------------------------------------------------
(* The marker updater on its own: successful calls for any codes at any of a  *)
(* few positions, in any order, so that the confirmed set outgrows one region *)

\* bound: codes that can get a marker
MaxMarkers == 5
Digits == <<"1", "2", "3", "4", "5", "6", "7">>
MarkerCodes == {<<"M", Digits[i]>> : i \in 1..MaxMarkers}
\* the row of R1 and R3 and a row below it
RBelow == Rect(150, 210, 50, 50)
MarkerFrames == {R1, R3, RBelow}

\* lines 734-748: addScan(data) has succeeded for a detection confirmed at frame
MarkSucceeded(data, frame) ==
    /\ pc = "idle"
    /\ permanentMarkers' =
          UpdateMarkers(permanentMarkers, data, newBoxOf(data, frame, TRUE))
    /\ UNCHANGED <<now, sweepDue, threshold, heap, detectionTracks, scannedCodes,
                   view, pc, newTracks, frameNow, codes, issued, scannedItems,
                   storage, calls, timers, delivered, log, clearing, geom>>

NextMarkers ==
    \/ \E data \in MarkerCodes, frame \in MarkerFrames : MarkSucceeded(data, frame)
    \/ ClearMarkers

SpecMarkers == Init /\ [][NextMarkers]_vars

\* The scanner screen together with the Clear All button.  ClearAll and
\* CompleteClearAll read and write only clearing, storage and scannedItems, which
\* no action of Next reads except to build the list an addScan call will publish.
NextWithClearAll ==
    \/ Next
    \/ ClearAll
    \/ \E removed \in BOOLEAN : CompleteClearAll(removed)

SpecWithClearAll == Init /\ [][NextWithClearAll]_vars

----------------------------------------------------------------------------
(* Frames and persistence calls alone: a session in which no expiry interval *)
(* elapses and no button is pressed, so that only the camera callback, the   *)
(* re-renders and the completions of addScan calls take steps.               *)

NextPending ==
    \/ BeginFrame
    \/ \E d \in Detections : ProcessDetection(d)
    \/ EndFrame
    \/ Render
    \/ \E i \in 1..Len(calls), ok \in BOOLEAN : CompleteAddScan(i, ok)

SpecPending == Init /\ [][NextPending]_vars

----------------------------------------------------------------------------
(* Properties *)

AddScans(c) == {i \in 1..Len(log) : log[i].op = "addScan" /\ log[i].code = c}
LiveRefs == Refs(detectionTracks) \cup Refs(newTracks)

\* C1: whatever the frame batches (repeated detections of one code in a batch,
\* batches processed while a persistence call is pending), addScan is invoked
\* at most once for each code.
C1_AtMostOneAddScanPerCode == \A c \in Codes : Cardinality(AddScans(c)) <= 1

\* the step works on a track of code c: it creates one or updates one
TouchesTrackOf(c) ==
    /\ pc = "scan"
    /\ pc' = "scan"
    /\ \E r \in TrackIds :
          heap'[r] # heap[r] /\ heap'[r] # NoTrack /\ heap'[r].code = c

\* C2: once a confirmation has marked code c as scanned, every detection of c
\* processed afterwards (later in the same batch, or in a later callback) is
\* skipped: no step creates or updates a track of a marked code.
C2_MarkVisibleToLaterDetections == [][\A c \in scannedCodes : ~TouchesTrackOf(c)]_vars

\* C3: addScan is issued in the very step in which a track's hitCount reaches the
\* threshold, so a track that satisfies the confirmation test always has an
\* addScan call on record for its code; with threshold 1 that is the first sighting.
C3_ConfirmedOnReachingThreshold ==
    \A r \in LiveRefs :
        isQRConfirmed(heap[r], threshold) => AddScans(heap[r].code) # {}

\* C4: every addScan call was issued from a track whose hitCount had reached the
\* confirmation threshold.
C4_NoConfirmationBelowThreshold ==
    \A i \in 1..Len(log) : log[i].op = "addScan" => log[i].hitCount >= threshold

\* an addScan call has been issued under the threshold of three
C4_Witness ==
    /\ threshold = CONFIRMATION_THRESHOLD_V1
    /\ \E i \in 1..Len(log) : log[i].op = "addScan" /\ log[i].hitCount = threshold


CallPending(c) == \E i \in 1..Len(calls) : calls[i].data = c
RollbackPending(c) == \E i \in 1..Len(timers) : timers[i].data = c

\* C5: a failed addScan call never leaves its code marked: a code is in the
\* scanned set only while a call for it is pending, while the rollback of a
\* failed call is pending, or when a call for it succeeded (it has a marker);
\* after the rollback a confirming detection issues addScan again.
C5_FailedCallIsRolledBack ==
    \A c \in scannedCodes :
        CallPending(c) \/ RollbackPending(c) \/ HasMarker(permanentMarkers, c)

\* addScan(c) failed, its mark was rolled back, and addScan(c) was issued again
C5_Witness ==
    \E c \in Codes : \E i, j, k \in 1..Len(log) :
        /\ i < j /\ j < k
        /\ log[i].op = "addScan" /\ log[i].code = c
        /\ log[j].op = "rollback" /\ log[j].code = c
        /\ log[k].op = "addScan" /\ log[k].code = c
        /\ c \in scannedCodes

TracksOf(tracks, c) == {i \in 1..Len(tracks) : heap[tracks[i]].code = c}

\* the running batch is k >= 2 valid sightings of c with pairwise matching boxes,
\* and c was unscanned and untracked when the batch started
SameCodeBatch(c) ==
    /\ pc = "scan"
    /\ Len(codes) >= 2
    /\ \A i \in 1..Len(codes) : codes[i].value = c /\ PassesFilters(codes[i])
    /\ \A i, j \in 1..Len(codes) :
          IoUMatches(calculateIoU(codes[i].frame, codes[j].frame))
    /\ c \notin view.scannedCodes
    /\ Cardinality(AddScans(c)) = issued
    /\ TracksOf(view.detectionTracks, c) = {}
    /\ TracksOf(detectionTracks, c) = {}

\* C6: k >= 2 sightings of one unscanned, untracked code in one batch, with
\* matching boxes, leave exactly one track of that code with hitCount = k and
\* produce at most one confirmation event.
C6_OneTrackOneConfirmation ==
    \A c \in Codes :
        SameCodeBatch(c) =>
            /\ Cardinality(TracksOf(newTracks, c)) = 1
            /\ \A i \in TracksOf(newTracks, c) : heap[newTracks[i]].hitCount = Len(codes)
            /\ issued <= 1

\* rejection as the validator's contract states it: centre outside the ROI, area
\* ratio below the minimum, or aspect ratio outside [min, max]
RejectedByPolicy(f) ==
    \/ 2 * f.x + f.width < 2 * vfL
    \/ 2 * f.x + f.width > 2 * (vfL + vfW)
    \/ 2 * f.y + f.height < 2 * vfT
    \/ 2 * f.y + f.height > 2 * (vfT + vfH)
    \/ f.width * f.height * MIN_BOX_AREA_RATIO_DEN < SCREEN_W * SCREEN_H
    \/ MIN_ASPECT_RATIO_DEN * f.width < f.height
    \/ f.width > MAX_ASPECT_RATIO * f.height

\* the step iterates over one more detection, which the validator must reject
ProcessesRejected ==
    /\ pc = "scan"
    /\ Len(codes') = Len(codes) + 1
    /\ codes'[Len(codes')].value # EmptyValue
    /\ codes'[Len(codes')].frame # NoFrame
    /\ RejectedByPolicy(codes'[Len(codes')].frame)

\* C7: a detection the validator rejects changes nothing: no track is created or
\* updated, the scanned set and the markers stay as they are, no addScan is issued.
C7_RejectedDetectionChangesNothing ==
    [][ProcessesRejected =>
          UNCHANGED <<heap, newTracks, detectionTracks, scannedCodes,
                      permanentMarkers, calls, scannedItems, log>>]_vars

\* a too-wide box that would have matched the live track of its code was dropped
C7_Witness ==
    /\ pc = "scan"
    /\ codes = <<Det(CodeA, R1), Det(CodeA, RWide), Det(CodeA, RSmall)>>
    /\ \E r \in Refs(newTracks) :
          heap[r] = [code |-> CodeA, frame |-> R1, hitCount |-> 1, lastSeen |-> frameNow]

Pos(s, r) == CHOOSE k \in 1..Len(s) : s[k] = r

\* C8: right after an expiry sweep at time now, the registry holds no track with
\* now - lastSeen >= TRACK_TIMEOUT, whatever its hitCount, and every younger track
\* is still there, unchanged and in the same order.
C8_SweepRemovesExactlyExpired ==
    [][(sweepDue /\ ~sweepDue') =>
          /\ \A r \in Refs(detectionTracks') : ~(now - heap'[r].lastSeen >= TRACK_TIMEOUT)
          /\ \A r \in Refs(detectionTracks) :
                now - heap[r].lastSeen < TRACK_TIMEOUT =>
                    r \in Refs(detectionTracks') /\ heap'[r] = heap[r]
          /\ Refs(detectionTracks') \subseteq Refs(detectionTracks)
          /\ \A i, j \in 1..Len(detectionTracks') :
                i < j => Pos(detectionTracks, detectionTracks'[i])
                           < Pos(detectionTracks, detectionTracks'[j])]_vars

\* a sweep has just dropped a track with two hits and kept a younger one
C8_Witness ==
    /\ ~sweepDue
    /\ pc = "idle"
    /\ log # <<>>
    /\ log[Len(log)].op = "expire"
    /\ log[Len(log)].hitCount >= 2
    /\ \E r \in Refs(detectionTracks) :
          now - heap[r].lastSeen < TRACK_TIMEOUT /\ now - heap[r].lastSeen > 0

HasTrack(tracks, c) == \E i \in 1..Len(tracks) : heap[tracks[i]].code = c

\* C9: once the track of code c has left the registry, no track of c is in the
\* registry again until a batch sights c: a track of c enters the registry only
\* at the end of a batch that holds a detection of c.
C9_AbsentUntilSightedAgain ==
    [][\A c \in Codes :
          (~HasTrack(detectionTracks, c) /\ (HasTrack(detectionTracks, c))') =>
              (pc = "scan" /\ \E i \in 1..Len(codes) : codes[i].value = c)]_vars

\* C10: the registry never holds two tracks of one code whose rectangles overlap
\* at or above the match threshold.
C10_NoTwoMatchableTracks ==
    \A i, j \in 1..Len(detectionTracks) :
        (i < j /\ heap[detectionTracks[i]].code = heap[detectionTracks[j]].code) =>
            ~IoUMatches(calculateIoU(heap[detectionTracks[i]].frame,
                                     heap[detectionTracks[j]].frame))

----------------------------------------------------------------------------
(* Confirmed set (permanent markers) *)

\* no rollback of code c is on record
NeverRolledBack(c) == \A i \in 1..Len(log) : ~(log[i].op = "rollback" /\ log[i].code = c)

\* C11: the confirmed set holds at most one marker per code, whatever the
\* confirmations and (repeated) successful persistence results.
C11_OneMarkerPerCode ==
    \A i, j \in 1..Len(permanentMarkers) :
        i # j => permanentMarkers[i].data # permanentMarkers[j].data

\* two addScan calls for one code have both succeeded, and the code has a marker
C11_Witness ==
    \E c \in Codes :
        /\ Cardinality(AddScans(c)) = 2
        /\ ~CallPending(c) /\ ~RollbackPending(c) /\ NeverRolledBack(c)
        /\ HasMarker(permanentMarkers, c)

\* C12: when persistence succeeds for a code that already has a marker, no
\* second marker is added and the marker's frame becomes the frame of the
\* detection whose call has just succeeded.
C12_ExistingMarkerRefreshed ==
    [][\A i \in 1..Len(calls) :
          (/\ calls' = RemoveAt(calls, i)
           /\ timers' = timers
           /\ HasMarker(permanentMarkers, calls[i].data))
          => /\ Len(permanentMarkers') = Len(permanentMarkers)
             /\ \E k \in 1..Len(permanentMarkers') :
                   /\ permanentMarkers'[k].data = calls[i].data
                   /\ permanentMarkers'[k].frame = calls[i].frame]_vars

\* the (regionIndex, indexInRegion) pairs in use
PairsOf(markers) ==
    {<<markers[i].regionIndex, markers[i].indexInRegion>> : i \in 1..Len(markers)}

InRegion(markers, r) == {i \in 1..Len(markers) : markers[i].regionIndex = r}

\* C13: with n markers, their (regionIndex, indexInRegion) pairs are exactly the
\* pairs (floor(i/4), i mod 4) for 0 <= i < n, each used once, and every region
\* but the last holds exactly 4 markers.
C13_RegionsCoverConfirmedSet ==
    LET n == Len(permanentMarkers)
    IN  /\ PairsOf(permanentMarkers) = {<<i \div 4, i % 4>> : i \in 0..(n - 1)}
        /\ Cardinality(PairsOf(permanentMarkers)) = n
        /\ \A r \in 0..((n - 1) \div 4 - 1) :
              Cardinality(InRegion(permanentMarkers, r)) = 4

\* five markers: the first region is full, the second holds the fifth marker,
\* the one of the lower row
C13_Witness ==
    /\ Len(permanentMarkers) = 5
    /\ Cardinality(InRegion(permanentMarkers, 0)) = 4
    /\ Cardinality(InRegion(permanentMarkers, 1)) = 1
    /\ permanentMarkers[1].data = <<"M", "5">>
    /\ permanentMarkers[5].frame = RBelow

\* the sequences that hold the elements of s, each once, in any order
Orderings(s) ==
    {p \in [1..Len(s) -> Refs(s)] : \A i, j \in 1..Len(s) : i # j => p[i] # p[j]}

\* which code got which (regionIndex, indexInRegion)
PairingOf(boxes) ==
    {<<boxes[i].data, boxes[i].regionIndex, boxes[i].indexInRegion>> :
        i \in 1..Len(boxes)}

\* C14: for a fixed confirmed set the assigner gives each code the same pair
\* whatever the order its elements are supplied in, and gives the same pairing
\* when it is run again on its own output.
C14_PairingIndependentOfOrder ==
    /\ \A p \in Orderings(permanentMarkers) :
          PairingOf(assignRegionsToBoxes(p)) = PairingOf(permanentMarkers)
    /\ PairingOf(assignRegionsToBoxes(assignRegionsToBoxes(permanentMarkers)))
          = PairingOf(permanentMarkers)

----------------------------------------------------------------------------
(* Geometry and validator *)

\* C15: for rectangles A and B with positive sides, overlapRatio(A, B) equals
\* overlapRatio(B, A) (the ratios i1/u1 and i2/u2 compared as i1*u2 = i2*u1).
C15_OverlapSymmetric ==
    outIoU # NoResult =>
        LET back == calculateIoURounded(inRect2, inRect1)
        IN  outIoU[1] * back[2] = back[1] * outIoU[2]

\* the overlap ratio 1/5 of two different, partly overlapping rectangles
C15_Witness ==
    /\ inRect1 = Rect(0, 0, 2, 2)
    /\ inRect2 = Rect(1, 1, 2, 1)
    /\ outIoU = <<1, 5>>

\* the rectangles share no interior point (they may touch at an edge or corner)
NoInterior(a, b) ==
    \/ a.x + a.width <= b.x
    \/ b.x + b.width <= a.x
    \/ a.y + a.height <= b.y
    \/ b.y + b.height <= a.y

\* C16: for rectangles with positive sides the overlap ratio is in [0, 1], is
\* exactly 0 when they do not intersect or only touch, is exactly 1 when they
\* are identical, and its divisor is never zero.
C16_OverlapBounds ==
    outIoU # NoResult =>
        /\ outIoU[2] > 0
        /\ 0 <= outIoU[1] /\ outIoU[1] <= outIoU[2]
        /\ NoInterior(inRect1, inRect2) => outIoU[1] = 0
        /\ inRect1 = inRect2 => outIoU[1] = outIoU[2]

\* C17: the validator (the utility function and the inline filters alike)
\* accepts a frame exactly when its centre is inside the ROI, edges included,
\* its area ratio is at least the minimum and its aspect ratio lies in the
\* closed interval [min, max].
C17_ValidatorAcceptsExactly ==
    outValid # NoResult =>
        /\ outValid[1] = ~RejectedByPolicy(inRect1)
        /\ outValid[2] = ~RejectedByPolicy(inRect1)

\* a frame whose centre (40, 90) is the top left corner of the ROI is accepted
C17_Witness ==
    /\ inRect1 = Rect(15, 65, 50, 50)
    /\ outValid = <<TRUE, TRUE>>

----------------------------------------------------------------------------
(* Duplicates, persistence latency, clearing *)

\* the step iterates over one more detection, whose code is in the scanned set
\* or has a marker
ProcessesDuplicate ==
    /\ pc = "scan"
    /\ Len(codes') = Len(codes) + 1
    /\ \/ codes'[Len(codes')].value \in scannedCodes
       \/ HasMarker(permanentMarkers, codes'[Len(codes')].value)

\* C18: a detection whose code is already in the scanned set or already has a
\* marker is a no-op: the step creates no track, changes no hitCount and no
\* lastSeen, and issues no addScan, whether or not a track of the code is left.
C18_DuplicateIsNoOp ==
    [][ProcessesDuplicate => UNCHANGED <<heap, newTracks, scannedCodes, calls, log>>]_vars

\* C19: frame processing never waits on persistence: while addScan calls are
\* pending, a new batch can start, every detection of a running batch can be
\* processed, and the batch can end; a pending call is applied by a step of its
\* own, between batches.
C19_FramesNeverWaitOnPersistence ==
    calls # <<>> =>
        /\ (pc = "idle" /\ delivered < MaxDetections) => ENABLED BeginFrame
        /\ (pc = "scan" /\ delivered < MaxDetections) =>
              \A d \in Detections : ENABLED ProcessDetection(d)
        /\ pc = "scan" => ENABLED EndFrame
        /\ pc = "idle" => \A i \in 1..Len(calls) : ENABLED CompleteAddScan(i, TRUE)

\* a call is pending for one code while a batch that started after the call was
\* issued has created a track of another code
C19_Witness ==
    /\ pc = "scan"
    /\ Len(codes) = 1
    /\ calls # <<>>
    /\ ~CallPending(codes[1].value)
    /\ HasTrack(newTracks, codes[1].value)
    /\ ~HasTrack(view.detectionTracks, codes[1].value)

\* the step completes the store's clearAll (the list is empty afterwards)
ClearAllCompletes == clearing /\ ~clearing' /\ scannedItems' = <<>>

\* the step is a press of Clear Markers that removes markers
ClearMarkersPressed == permanentMarkers # <<>> /\ permanentMarkers' = <<>>

\* C20: right after an explicit clear (the Clear All button or the Clear Markers
\* button) the scanned set and the track registry are both empty, so that a code
\* scanned before the clear is no longer skipped.
C20_ClearEmptiesScannedSetAndRegistry ==
    [][(ClearAllCompletes \/ ClearMarkersPressed) =>
          (scannedCodes' = {} /\ detectionTracks' = <<>>)]_vars

----------------------------------------------------------------------------
(* The confirmation branch on its own, for codes with any number of         *)
(* separators: lines 691-701 run for a track of `data` that has just        *)
(* reached the threshold.                                                   *)

MaxKeyLen == 3
MaxConfirmed == 2

\* the non-empty codes of up to MaxKeyLen characters over a letter and the separator
KeyCodes == UNION {[1..n -> {"A", "-"}] : n \in 1..MaxKeyLen}

\* lines 691-701: the code is marked and addScan(data, productId) is called
ConfirmCode(data) ==
    /\ pc = "idle"
    /\ Len(log) < MaxConfirmed
    /\ data \notin scannedCodes
    /\ LET productId == productIdOf(data)
       IN  /\ scannedCodes' = scannedCodes \cup {data}
           /\ calls' = Append(calls,
                  [data |-> data, productId |-> productId, frame |-> R1,
                   current |-> addScanCurrent(scannedItems, data, productId)])
           /\ log' = Append(log,
                  [op |-> "addScan", code |-> data, productId |-> productId,
                   hitCount |-> threshold])
    /\ UNCHANGED <<now, sweepDue, threshold, heap, detectionTracks, permanentMarkers,
                   view, pc, newTracks, frameNow, codes, issued, scannedItems,
                   storage, timers, delivered, clearing, geom>>

NextGroupKey == \E data \in KeyCodes : ConfirmCode(data)

SpecGroupKey == Init /\ [][NextGroupKey]_vars

\* key is what stands in code before its first separator: a prefix of code
\* without separator that is followed by a separator or by the end of the code
IsPrefixBeforeFirstDash(key, code) ==
    /\ Len(key) <= Len(code)
    /\ \A i \in 1..Len(key) : key[i] = code[i] /\ key[i] # "-"
    /\ Len(key) = Len(code) \/ code[Len(key) + 1] = "-"

\* C21: the group key passed to addScan is the prefix of the code before its
\* first '-' separator, and the whole code when it holds no separator, for
\* every confirmed code.
C21_GroupKeyIsPrefixBeforeFirstDash ==
    /\ \A i \in 1..Len(calls) : IsPrefixBeforeFirstDash(calls[i].productId, calls[i].data)
    /\ \A i \in 1..Len(log) :
          log[i].op = "addScan" => IsPrefixBeforeFirstDash(log[i].productId, log[i].code)

\* addScan was called for a code with two separators and for a code without one
C21_Witness ==
    /\ \E i \in 1..Len(calls) :
          calls[i].data = <<"A", "-", "-">> /\ calls[i].productId = <<"A">>
    /\ \E i \in 1..Len(calls) :
          calls[i].data = <<"A", "A">> /\ calls[i].productId = <<"A", "A">>

----------------------------------------------------------------------------
(* The region assigner on rows that are a few pixels apart: markers of three *)
(* codes at positions whose vertical centres differ by less than, exactly    *)
(* and more than the tolerance.                                              *)

RowCodes == {<<"M", Digits[i]>> : i \in 1..3}
RowXs == {150, 160, 170}
RowYs == {150, 154, 155, 158, 164}
RowFrames == {Rect(x, y, 50, 50) : x \in RowXs, y \in RowYs}

NextRows ==
    \/ \E data \in RowCodes, frame \in RowFrames : MarkSucceeded(data, frame)
    \/ ClearMarkers

SpecRows == Init /\ [][NextRows]_vars

\* markers i and j stand in the claimed order: rows more than the tolerance
\* apart top to bottom, rows less than the tolerance apart left to right
InClaimedOrder(markers, i, j) ==
    /\ Abs(centerY2(markers[i]) - centerY2(markers[j])) > 2 * 5 =>
          centerY2(markers[i]) < centerY2(markers[j])
    /\ Abs(centerY2(markers[i]) - centerY2(markers[j])) < 2 * 5 =>
          centerX2(markers[i]) <= centerX2(markers[j])

\* C22: in the output of the region assigner, any two boxes whose vertical
\* centres differ by more than the tolerance (5) are ordered top to bottom, and
\* any two whose vertical centres differ by less than the tolerance are ordered
\* left to right by horizontal centre.
C22_OrderedByRowThenColumn ==
    \A i, j \in 1..Len(permanentMarkers) :
        i < j => InClaimedOrder(permanentMarkers, i, j)

----------------------------------------------------------------------------
(* The matcher on its own: findMatchingTrack (qrDetectionUtils.ts lines     *)
(* 118-134) and the match loop of onCodeScanned (lines 671-684), applied to *)
(* arrays of up to MaxTracks tracks.                                        *)

MaxTracks == 2

\* a matcher that would keep the last matching track
findMatchingTrack_Last(code, frame, tracks, iouThreshold) ==
    LET hits == {i \in 1..Len(tracks) :
                    /\ tracks[i].code = code
                    /\ LET iou == calculateIoU(tracks[i].frame, frame)
                       IN  iou[1] * iouThreshold[2] >= iouThreshold[1] * iou[2]}
    IN  IF hits = {} THEN 0 ELSE CHOOSE i \in hits : \A j \in hits : i >= j

\* the index, counted from one, of the track the loop returns; 0 for null.
\* iouThreshold is the ratio <<numerator, denominator>>.
findMatchingTrack(code, frame, tracks, iouThreshold) ==
    LET hits == {i \in 1..Len(tracks) :
                    /\ tracks[i].code = code
                    /\ LET iou == calculateIoU(tracks[i].frame, frame)
                       IN  iou[1] * iouThreshold[2] >= iouThreshold[1] * iou[2]}
    IN  IF hits = {} THEN 0 ELSE CHOOSE i \in hits : \A j \in hits : i <= j

MatchTracks == {createTrack(c, f, 0) : c \in Codes, f \in ValidFrames}
TrackArrays == UNION {[1..n -> MatchTracks] : n \in 0..MaxTracks}

InitMatcher ==
    /\ now = 0
    /\ sweepDue = FALSE
    /\ threshold = CONFIRMATION_THRESHOLD
    /\ heap = [r \in TrackIds |-> NoTrack]
    /\ detectionTracks = <<>>
    /\ scannedCodes = {}
    /\ permanentMarkers = <<>>
    /\ view = [detectionTracks |-> <<>>, scannedCodes |-> {}]
    /\ pc = "idle"
    /\ newTracks = <<>>
    /\ frameNow = 0
    /\ codes = <<>>
    /\ issued = 0
    /\ scannedItems = <<>>
    /\ storage = <<>>
    /\ calls = <<>>
    /\ timers = <<>>
    /\ delivered = 0
    /\ log = <<>>
    /\ clearing = FALSE
    /\ inRect1 = NoFrame
    /\ inRect2 = NoFrame
    /\ outIoU = NoResult
    /\ outValid = NoResult
    /\ inTracks \in TrackArrays
    /\ inDet \in {Det(c, f) : c \in Codes, f \in ValidFrames}
    /\ outMatch = NoResult
    /\ InitProducts

\* the detection is matched against inTracks: outMatch is the pair of what the
\* utility function and the inline loop (over an array of references to the
\* same tracks) answer
ApplyFindMatch ==
    /\ outMatch = NoResult
    /\ outMatch' =
          <<findMatchingTrack(inDet.value, inDet.frame, inTracks,
                              <<IOU_THRESHOLD_NUM, IOU_THRESHOLD_DEN>>),
            matchedIndex(inTracks, [i \in 1..Len(inTracks) |-> i],
                         inDet.value, inDet.frame)>>
    /\ UNCHANGED <<now, sweepDue, threshold, heap, detectionTracks, scannedCodes,
                   permanentMarkers, view, pc, newTracks, frameNow, codes, issued,
                   scannedItems, storage, calls, timers, delivered, log, clearing,
                   inRect1, inRect2, outIoU, outValid, inTracks, inDet, productStore>>

NextMatcher == ApplyFindMatch

SpecMatcher == InitMatcher /\ [][NextMatcher]_vars

\* track i of inTracks has the detection's code and overlaps its frame at or
\* above the match threshold (0.03)
Matchable(i) ==
    /\ inTracks[i].code = inDet.value
    /\ LET iou == calculateIoU(inTracks[i].frame, inDet.frame)
       IN  100 * iou[1] >= 3 * iou[2]

\* m is the answer the claim asks for
FirstMatch(m) ==
    IF m = 0 THEN \A i \in 1..Len(inTracks) : ~Matchable(i)
    ELSE /\ m \in 1..Len(inTracks)
         /\ Matchable(m)
         /\ \A i \in 1..(m - 1) : ~Matchable(i)

\* C23: the matcher returns the first track, in array order, that has the
\* detection's code and overlaps its frame at or above the threshold, also when
\* a later track overlaps better; it returns no match when there is no such
\* track, and never a track of another code.
C23_FirstMatchInRegistryOrder ==
    outMatch # NoResult => FirstMatch(outMatch[1]) /\ FirstMatch(outMatch[2])

\* the first track was returned although the second one, of the same code,
\* overlaps the detection entirely
C23_Witness ==
    /\ outMatch = <<1, 1>>
    /\ Len(inTracks) = 2
    /\ inTracks[2].code = inDet.value
    /\ inTracks[2].frame = inDet.frame
    /\ inTracks[1].frame # inDet.frame

----------------------------------------------------------------------------
(* Tracking alone: the camera callback, the re-renders and the expiry       *)
(* interval, in a session whose addScan calls stay pending and in which no  *)
(* button is pressed.                                                       *)

NextTracking ==
    \/ BeginFrame
    \/ \E d \in Detections : ProcessDetection(d)
    \/ EndFrame
    \/ Render
    \/ Tick
    \/ Sweep

SpecTracking == Init /\ [][NextTracking]_vars

\* the step updates the existing track r
UpdatesTrack(r) ==
    /\ pc = "scan"
    /\ pc' = "scan"
    /\ heap[r] # NoTrack
    /\ heap'[r] # heap[r]

\* C24: updating a matched track adds exactly 1 to its hitCount, replaces its
\* frame by the detection's frame as it is, sets lastSeen to the current time,
\* and leaves its code, every other track and the arrays of tracks unchanged.
C24_UpdateIsLastWriteWins ==
    [][\A r \in TrackIds :
          UpdatesTrack(r) =>
              /\ heap'[r].hitCount = heap[r].hitCount + 1
              /\ heap'[r].frame = codes'[Len(codes')].frame
              /\ heap'[r].lastSeen = now
              /\ heap'[r].code = heap[r].code
              /\ \A q \in TrackIds \ {r} : heap'[q] = heap[q]
              /\ newTracks' = newTracks
              /\ detectionTracks' = detectionTracks]_vars

\* a track of one code, first seen at time 0, was updated a second later at
\* another position, next to an untouched track of another code
C24_Witness ==
    /\ pc = "scan"
    /\ now = SWEEP_INTERVAL
    /\ \E r, q \in Refs(newTracks) :
          /\ heap[r] = [code |-> CodeA, frame |-> R2, hitCount |-> 2,
                        lastSeen |-> SWEEP_INTERVAL]
          /\ heap[q] = [code |-> CodeB, frame |-> R1, hitCount |-> 1, lastSeen |-> 0]

\* the step iterates over one more detection, which has no value or no frame
ProcessesMalformed ==
    /\ pc = "scan"
    /\ Len(codes') = Len(codes) + 1
    /\ \/ codes'[Len(codes')].value = EmptyValue
       \/ codes'[Len(codes')].frame = NoFrame

\* C25: a detection with a missing or empty value, or without geometry, is
\* skipped: no track is created or updated, nothing is marked as scanned, no
\* addScan is issued, and the loop goes on with the rest of the batch.
C25_MalformedDetectionIsSkipped ==
    [][ProcessesMalformed =>
          /\ UNCHANGED <<heap, newTracks, detectionTracks, scannedCodes,
                         permanentMarkers, calls, scannedItems, log>>
          /\ pc' = "scan"]_vars

\* after a detection without value and one without frame, the third detection
\* of the batch has created its track
C25_Witness ==
    /\ pc = "scan"
    /\ codes = <<Det(EmptyValue, R1), Det(CodeA, NoFrame), Det(CodeB, R1)>>
    /\ Len(newTracks) = 1
    /\ heap[newTracks[1]].code = CodeB

\* an expiry sweep has removed a track of code c
Expired(c) == \E i \in 1..Len(log) : log[i].op = "expire" /\ log[i].code = c

\* the step iterates over a valid detection of the unscanned code c, the first
\* one of its batch, while the registry holds no track of c after an expiry
SightsAfterExpiry(c) ==
    /\ pc = "scan"
    /\ Len(codes') = Len(codes) + 1
    /\ codes'[Len(codes')].value = c
    /\ PassesFilters(codes'[Len(codes')])
    /\ \A i \in 1..Len(codes) : codes[i].value # c
    /\ c \notin scannedCodes
    /\ Expired(c)
    /\ ~HasTrack(detectionTracks, c)

\* C26: after an expiry sweep has removed the track of an unscanned code, the
\* next valid sighting of the code creates a fresh track with hitCount = 1, and
\* no track that carries earlier hits of the code is updated.
C26_FreshTrackAfterExpiry ==
    [][\A c \in Codes :
          SightsAfterExpiry(c) =>
              /\ \E r \in TrackIds :
                    /\ heap[r] = NoTrack
                    /\ heap'[r] = [code |-> c, frame |-> codes'[Len(codes')].frame,
                                   hitCount |-> 1, lastSeen |-> now]
                    /\ newTracks' = Append(newTracks, r)
              /\ \A q \in TrackIds : heap[q] # NoTrack => heap'[q] = heap[q]]_vars

\* C27: every track of the registry, and of the array a running callback works
\* on, has hitCount >= 1: a track object is created with hitCount = 1 and its
\* hitCount never decreases as long as the object is in use.
C27_HitCountAtLeastOne ==
    [][/\ \A r \in Refs(detectionTracks') \cup Refs(newTracks') :
             heap'[r] # NoTrack /\ heap'[r].hitCount >= 1
       /\ \A r \in TrackIds :
             /\ (heap[r] = NoTrack /\ heap'[r] # NoTrack) => heap'[r].hitCount = 1
             /\ (heap[r] # NoTrack /\ heap'[r] # NoTrack) =>
                    heap'[r].hitCount >= heap[r].hitCount]_vars

\* the registry holds a track that was created and then updated twice
C27_Witness ==
    /\ pc = "idle"
    /\ \E r \in Refs(detectionTracks) : heap[r].hitCount = 3

\* the step ends a callback that writes the registry (line 762)
WritesRegistry == pc = "scan" /\ pc' = "idle" /\ codes # <<>>

\* C28: the registry a callback writes is the registry as it stood right before
\* the callback, with the callback's updates, plus the tracks the callback
\* created: no track of the registry is discarded, and no track that a sweep or
\* another writer had removed comes back.
C28_RegistryIsSingleOwner ==
    [][WritesRegistry =>
          /\ Refs(detectionTracks) \subseteq Refs(detectionTracks')
          /\ \A r \in Refs(detectionTracks') \ Refs(detectionTracks) :
                r \notin Refs(view.detectionTracks)]_vars

\* C29: once an addScan call for code c has succeeded (c has its marker), c
\* leaves the scanned set only by an explicit clear: no failure of another
\* addScan call for c removes the mark.
C29_SucceededCodeStaysMarked ==
    [][\A c \in Codes :
          (HasMarker(permanentMarkers, c) /\ c \in scannedCodes /\ c \notin scannedCodes')
              => ClearMarkersPressed]_vars

----------------------------------------------------------------------------
(* A session without end: one valid code stays in front of the camera and   *)
(* no button is pressed.  The session is kept in finitely many states by    *)
(* what the program cannot tell apart: the origin of the clock is moved     *)
(* forward, a hit count above the threshold counts as the threshold, and    *)
(* the histories are forgotten.                                             *)

MaxCalls == 2
MaxTimers == 1

\* the code in front of the camera
Sighting == Det(CodeB, R1)

\* the code in front of the camera is stored and has its marker
Persisted ==
    /\ HasMarker(permanentMarkers, Sighting.value)
    /\ \E i \in 1..Len(storage) : storage[i].code = Sighting.value

\* the clock runs this far before its origin is moved
Horizon == TRACK_TIMEOUT + SWEEP_INTERVAL

\* one period of the expiry interval elapses, during which the camera has
\* delivered at least one detection
PeriodElapses ==
    /\ pc = "idle"
    /\ delivered > 0
    /\ now < Horizon
    /\ now' = now + SWEEP_INTERVAL
    /\ sweepDue' = TRUE
    /\ delivered' = 0
    /\ UNCHANGED <<threshold, heap, detectionTracks, scannedCodes, permanentMarkers,
                   view, pc, newTracks, frameNow, codes, issued, log,
                   scannedItems, storage, calls, timers, clearing, geom>>

\* a time stamp seen from the moved origin; a stamp before it becomes 0
Shifted(t) == IF t >= SWEEP_INTERVAL THEN t - SWEEP_INTERVAL ELSE 0

\* moving the origin changes no comparison the program makes: a stamp before
\* the new origin belongs to a track that is expired and stays so, or to a
\* timer that is due and stays so
CanRebase ==
    /\ now >= SWEEP_INTERVAL
    /\ \A r \in TrackIds :
           heap[r] # NoTrack /\ heap[r].lastSeen < SWEEP_INTERVAL
               => Shifted(now) - Shifted(heap[r].lastSeen) >= TRACK_TIMEOUT

\* isQRConfirmed compares hitCount with the threshold only: a track above the
\* threshold behaves as one at the threshold
Saturated(track) ==
    IF track.hitCount > threshold THEN [track EXCEPT !.hitCount = threshold] ELSE track

\* the tracks and the time as the program can tell them apart
Normalised(track) ==
    IF CanRebase THEN [Saturated(track) EXCEPT !.lastSeen = Shifted(@)] ELSE Saturated(track)

CanNormalise ==
    \/ CanRebase
    \/ log # <<>>
    \/ \E r \in TrackIds : heap[r] # NoTrack /\ heap[r].hitCount > threshold

\* the origin of Date.now() is moved forward by one period, hit counts are
\* saturated, the log is forgotten
Normalise ==
    /\ pc = "idle"
    /\ ~Persisted
    /\ CanNormalise
    /\ now' = IF CanRebase THEN Shifted(now) ELSE now
    /\ heap' = [r \in TrackIds |->
                   IF heap[r] = NoTrack THEN NoTrack ELSE Normalised(heap[r])]
    /\ timers' = [i \in 1..Len(timers) |->
                     [timers[i] EXCEPT !.due = IF CanRebase THEN Shifted(@) ELSE @]]
    /\ log' = <<>>
    /\ UNCHANGED <<sweepDue, threshold, detectionTracks, scannedCodes, permanentMarkers,
                   view, pc, newTracks, frameNow, codes, issued, scannedItems,
                   storage, calls, delivered, clearing, geom>>

\* the session is followed until the code is persisted, and normalised as
\* soon as it can be
OriginCurrent == ~Persisted /\ ~(pc = "idle" /\ CanNormalise)

\* a frame arrives
FrameArrives == OriginCurrent /\ BeginFrame

\* the callback iterates over the sighting
SightCode == Len(calls) < MaxCalls /\ ProcessDetection(Sighting)

\* a pending addScan call resolves or rejects
SettleCall ==
    \E i \in 1..Len(calls), ok \in BOOLEAN :
        /\ OriginCurrent
        /\ ~ok => Len(timers) < MaxTimers
        /\ CompleteAddScan(i, ok)

\* a pending addScan call rejects
FailCall == \E i \in 1..Len(calls) : CompleteAddScan(i, FALSE)

\* a rollback timer fires
TimerFires == \E i \in 1..Len(timers) : OriginCurrent /\ FireTimer(i)

NextUnending ==
    \/ FrameArrives
    \/ SightCode
    \/ EndFrame
    \/ OriginCurrent /\ Render
    \/ OriginCurrent /\ PeriodElapses
    \/ OriginCurrent /\ Sweep
    \/ SettleCall
    \/ TimerFires
    \/ Normalise

\* frames arrive and callbacks run to their end, React renders, time passes,
\* the interval and the timers fire, pending calls settle
FairUnending ==
    /\ WF_vars(FrameArrives)
    /\ WF_vars(EndFrame)
    /\ SF_vars(OriginCurrent /\ Render)
    /\ WF_vars(OriginCurrent /\ PeriodElapses)
    /\ WF_vars(OriginCurrent /\ Sweep)
    /\ SF_vars(SettleCall)
    /\ SF_vars(TimerFires)
    /\ WF_vars(Normalise)

SpecUnending == Init /\ [][NextUnending]_vars /\ FairUnending

\* C30: when a valid code keeps being detected (at least once in every period
\* of the expiry interval) and addScan rejects only finitely often, the code is
\* eventually stored and eventually has its marker.
C30_EventuallyPersisted ==
    ([]<><<SightCode>>_vars /\ <>[][~FailCall]_vars) => <>Persisted

\* the code is persisted while the rollback of a rejected call is still pending
C30_Witness == Persisted /\ Len(timers) > 0

----------------------------------------------------------------------------

\* the addScan call i resolves in this step: its list is written and published
Resolves(i) ==
    /\ calls' = RemoveAt(calls, i)
    /\ storage' = calls[i].current
    /\ scannedItems' = calls[i].current
    /\ timers' = timers

\* an addScan call rejects in this step: its rollback is scheduled
Rejects == Len(calls') < Len(calls) /\ Len(timers') > Len(timers)

\* C31: a permanent marker for a code appears only in the step in which an
\* addScan call for that code resolves; the markers change in no step but the
\* resolution of a call, and a call that rejects leaves them as they are.
C31_MarkerOnlyAfterSuccess ==
    [][/\ \A c \in Codes :
             (~HasMarker(permanentMarkers, c) /\ HasMarker(permanentMarkers', c))
                 => \E i \in 1..Len(calls) : calls[i].data = c /\ Resolves(i)
       /\ permanentMarkers' # permanentMarkers => \E i \in 1..Len(calls) : Resolves(i)
       /\ Rejects => permanentMarkers' = permanentMarkers]_vars

\* the only call has rejected: its rollback is pending and there is no marker
C31_Witness ==
    /\ \E c \in Codes :
          RollbackPending(c) /\ ~CallPending(c) /\ ~HasMarker(permanentMarkers, c)
    /\ permanentMarkers = <<>>
    /\ calls = <<>>

----------------------------------------------------------------------------
(* The scannedItems store under calls that overlap: addScan is called for    *)
(* codes the screen has confirmed, and each call resolves or rejects later.  *)

NextStore ==
    \/ \E data \in KeyCodes : ConfirmCode(data)
    \/ \E i \in 1..Len(calls), ok \in BOOLEAN : CompleteAddScan(i, ok)

SpecStore == Init /\ [][NextStore]_vars

\* the store's list has a record of the code
Stored(items, c) == \E i \in 1..Len(items) : items[i].code = c

\* C32: every addScan call that resolved leaves its code in scannedItems: once
\* no call is pending, every code whose call resolved (it has its marker) is
\* in the list, also when the calls of two codes overlapped.
C32_ResolvedCodesAreStored ==
    calls = <<>> =>
        \A c \in KeyCodes : HasMarker(permanentMarkers, c) => Stored(scannedItems, c)

----------------------------------------------------------------------------
(* The products store (src/hooks/useScanStore.ts).  addScan copies the       *)
(* Record of products, not the Product objects: the copy and the state share *)
(* them, so products holds references into pheap.  The store is called with  *)
(* up to MaxScans pairs of a serial number and a GTIN, while earlier calls   *)
(* and a clearAll are pending; AsyncStorage settles them in any order.       *)

\* a duplicate check that never finds the serial number
includes_Never(codesOfProduct, serialNumber) == FALSE

\* line 45: current[gtin].codes.includes(serialNumber)
includes(codesOfProduct, serialNumber) ==
    \E k \in 1..Len(codesOfProduct) : codesOfProduct[k] = serialNumber

\* JSON.stringify(current) (line 58): the Record by value
stringify(record, h) == [gtin \in DOMAIN record |-> h[record[gtin]]]

\* the in-memory products by value
Memory == stringify(products, pheap)

\* line 66: codes.filter(c => c !== serialNumber)
withoutSerial(codesOfProduct, serialNumber) ==
    SelectSeq(codesOfProduct, LAMBDA c : c # serialNumber)

\* line 68: delete current[gtin]
deleteKey(record, gtin) == [g \in DOMAIN record \ {gtin} |-> record[g]]

\* a Record with one more key, or the same key bound anew
withKey(record, gtin, ref) ==
    [g \in DOMAIN record \cup {gtin} |-> IF g = gtin THEN ref ELSE record[g]]

FreeProductIds == {r \in ProductIds : pheap[r] = NoProduct}

\* lines 34-58: addScan up to the call of AsyncStorage.setItem
AddProductScan(serialNumber, gtin) ==
    /\ Len(plog) < MaxScans
    /\ LET isNew == gtin \notin DOMAIN products
           ref == IF isNew
                  THEN CHOOSE r \in FreeProductIds : \A q \in FreeProductIds : r <= q
                  ELSE products[gtin]
           before == IF isNew THEN <<>> ELSE pheap[ref].codes
           current == withKey(products, gtin, ref)
       IN  IF includes(before, serialNumber)
           THEN /\ plog' = Append(plog, [serialNumber |-> serialNumber, gtin |-> gtin,
                                         outcome |-> "duplicate"])
                /\ UNCHANGED <<products, pheap, saved, pcalls>>
           ELSE /\ pheap' = [pheap EXCEPT ![ref] =
                                [id |-> gtin, codes |-> Append(before, serialNumber)]]
                /\ products' = current
                /\ pcalls' = Append(pcalls,
                       [serialNumber |-> serialNumber, gtin |-> gtin,
                        current |-> current, json |-> stringify(current, pheap')])
                /\ plog' = Append(plog, [serialNumber |-> serialNumber, gtin |-> gtin,
                                         outcome |-> "called"])
                /\ UNCHANGED saved
    /\ UNCHANGED <<now, sweepDue, threshold, heap, detectionTracks, scannedCodes,
                   permanentMarkers, view, pc, newTracks, frameNow, codes, issued,
                   scannedItems, storage, calls, timers, delivered, log, clearing,
                   inRect1, inRect2, outIoU, outValid, matcher, loaded>>

\* lines 59-72: setItem resolves (the string is stored) or rejects (rollback)
CompleteProductScan(i, written) ==
    /\ i \in 1..Len(pcalls)
    /\ pcalls' = RemoveAt(pcalls, i)
    /\ LET call == pcalls[i]
           ref == call.current[call.gtin]
           left == withoutSerial(pheap[ref].codes, call.serialNumber)
       IN  IF written
           THEN /\ saved' = call.json
                /\ UNCHANGED <<products, pheap>>
           ELSE /\ pheap' = [pheap EXCEPT ![ref].codes = left]
                /\ products' = IF left = <<>> THEN deleteKey(call.current, call.gtin)
                               ELSE call.current
                /\ UNCHANGED saved
    /\ UNCHANGED <<now, sweepDue, threshold, heap, detectionTracks, scannedCodes,
                   permanentMarkers, view, pc, newTracks, frameNow, codes, issued,
                   scannedItems, storage, calls, timers, delivered, log, clearing,
                   inRect1, inRect2, outIoU, outValid, matcher, loaded, plog>>

\* lines 76-84 after the await: the key is removed and the Record emptied; a
\* rejected removeItem is caught and leaves both as they are
CompleteClearProducts(removed) ==
    /\ clearing
    /\ clearing' = FALSE
    /\ IF removed
       THEN saved' = NoResult /\ products' = EmptyRecord
       ELSE UNCHANGED <<saved, products>>
    /\ UNCHANGED <<now, sweepDue, threshold, heap, detectionTracks, scannedCodes,
                   permanentMarkers, view, pc, newTracks, frameNow, codes, issued,
                   scannedItems, storage, calls, timers, delivered, log,
                   inRect1, inRect2, outIoU, outValid, matcher, loaded, pheap,
                   pcalls, plog>>

NextProducts ==
    \/ \E serialNumber \in Serials, gtin \in Gtins : AddProductScan(serialNumber, gtin)
    \/ \E i \in 1..Len(pcalls), written \in BOOLEAN : CompleteProductScan(i, written)
    \/ ClearAll
    \/ \E removed \in BOOLEAN : CompleteClearProducts(removed)

SpecProducts == Init /\ [][NextProducts]_vars

\* the addScan call i is rolled back in this step
RollsBack(i) ==
    /\ pcalls' = RemoveAt(pcalls, i)
    /\ pheap' # pheap \/ products' # products

\* the products by value without one serial number of one product, and
\* without the product when that was its only serial number
WithoutScan(memory, serialNumber, gtin) ==
    IF gtin \notin DOMAIN memory THEN memory
    ELSE LET left == withoutSerial(memory[gtin].codes, serialNumber)
         IN  IF left = <<>> THEN deleteKey(memory, gtin)
             ELSE [memory EXCEPT ![gtin].codes = left]

\* C33: the rollback of an addScan call whose storage write failed removes that
\* call's serial number (and its product when no serial number is left) and
\* leaves every other product and serial number in memory, also those added by
\* calls that ran while this one was pending.
C33_RollbackRemovesOnlyItsSerial ==
    [][\A i \in 1..Len(pcalls) :
          RollsBack(i) =>
              Memory' = WithoutScan(Memory, pcalls[i].serialNumber, pcalls[i].gtin)]_vars

\* what AsyncStorage holds under 'scanned_products', {} when the key is absent
Persistent == IF saved = NoResult THEN EmptyRecord ELSE saved

\* no addScan and no clearAll call is pending
Settled == pcalls = <<>> /\ calls = <<>> /\ ~clearing

\* C34: once every pending addScan and clearAll call has settled, what a store
\* holds in memory is what was last written to storage (nothing when the key
\* was removed).
C34_MemoryEqualsStorageWhenSettled ==
    Settled => Memory = Persistent /\ scannedItems = storage

\* no serial number twice in one list of codes
NoRepeat(codesOfProduct) ==
    \A j, k \in 1..Len(codesOfProduct) :
        codesOfProduct[j] = codesOfProduct[k] => j = k

\* addScan(serialNumber, gtin) is called in this step and rejects as a duplicate
RejectsDuplicate(serialNumber, gtin) ==
    plog' = Append(plog, [serialNumber |-> serialNumber, gtin |-> gtin,
                          outcome |-> "duplicate"])

\* addScan(serialNumber, gtin) is called in this step
CallsAddScan(serialNumber, gtin) ==
    /\ Len(plog') = Len(plog) + 1
    /\ plog'[Len(plog')].serialNumber = serialNumber
    /\ plog'[Len(plog')].gtin = gtin

\* the serial number is recorded for the product in memory
Recorded(serialNumber, gtin) ==
    /\ gtin \in DOMAIN Memory
    /\ \E k \in 1..Len(Memory[gtin].codes) : Memory[gtin].codes[k] = serialNumber

\* C35: no serial number ever appears twice under one product, in memory or in
\* storage: addScan with a serial number already recorded for the product
\* rejects and leaves the products in memory and the storage as they are.
C35_NoSerialTwice ==
    [][/\ \A gtin \in DOMAIN Memory' : NoRepeat(Memory'[gtin].codes)
       /\ \A gtin \in DOMAIN Persistent' : NoRepeat(Persistent'[gtin].codes)
       /\ \A serialNumber \in Serials, gtin \in Gtins :
             /\ (CallsAddScan(serialNumber, gtin) /\ Recorded(serialNumber, gtin))
                    => RejectsDuplicate(serialNumber, gtin)
             /\ RejectsDuplicate(serialNumber, gtin)
                    => /\ Recorded(serialNumber, gtin)
                       /\ Memory' = Memory
                       /\ products' = products
                       /\ saved' = saved]_vars

\* a duplicate was rejected while the first call for the serial number was
\* still pending, and a second serial number is recorded for the product
C35_Witness ==
    /\ \E i \in 1..Len(plog) : plog[i].outcome = "duplicate" /\ plog[i].serialNumber = "S1"
    /\ \E i \in 1..Len(pcalls) : pcalls[i].serialNumber = "S1" /\ pcalls[i].gtin = "G1"
    /\ "G1" \in DOMAIN Memory /\ Memory["G1"].codes = <<"S1", "S2">>

----------------------------------------------------------------------------
(* A session that starts on what an earlier session stored: the mount       *)
(* effect loads the list, then codes are scanned and the markers cleared.    *)

\* the record addScan stores for a code
itemOf(code) == [code |-> code, productId |-> productIdOf(code)]

\* what an earlier session left in AsyncStorage: nothing, or one code
EarlierSessions == {<<>>} \cup {<<itemOf(c)>> : c \in Codes}

InitReload ==
    /\ now = 0
    /\ sweepDue = FALSE
    /\ threshold \in {CONFIRMATION_THRESHOLD, CONFIRMATION_THRESHOLD_V1}
    /\ heap = [r \in TrackIds |-> NoTrack]
    /\ detectionTracks = <<>>
    /\ scannedCodes = {}
    /\ permanentMarkers = <<>>
    /\ view = [detectionTracks |-> <<>>, scannedCodes |-> {}]
    /\ pc = "idle"
    /\ newTracks = <<>>
    /\ frameNow = 0
    /\ codes = <<>>
    /\ issued = 0
    /\ scannedItems = <<>>
    /\ storage \in EarlierSessions
    /\ calls = <<>>
    /\ timers = <<>>
    /\ delivered = 0
    /\ log = <<>>
    /\ clearing = FALSE
    /\ inRect1 = NoFrame
    /\ inRect2 = NoFrame
    /\ outIoU = NoResult
    /\ outValid = NoResult
    /\ inTracks = <<>>
    /\ inDet = NoDetection
    /\ outMatch = NoResult
    /\ InitProducts

\* index.tsx line 587 and the store's loadData (src/unnamed/part_000 lines
\* 90-93): the stored list, when there is one, becomes the in-memory list
LoadData ==
    /\ pc = "idle"
    /\ ~loaded
    /\ loaded' = TRUE
    /\ scannedItems' = IF storage # <<>> THEN storage ELSE scannedItems
    /\ UNCHANGED <<now, sweepDue, threshold, heap, detectionTracks, scannedCodes,
                   permanentMarkers, view, pc, newTracks, frameNow, codes, issued,
                   storage, calls, timers, delivered, log, clearing,
                   inRect1, inRect2, outIoU, outValid, matcher,
                   products, pheap, saved, pcalls, plog>>

NextReload ==
    \/ LoadData
    \/ BeginFrame
    \/ \E d \in Detections : ProcessDetection(d)
    \/ EndFrame
    \/ Render
    \/ \E i \in 1..Len(calls), ok \in BOOLEAN : CompleteAddScan(i, ok)
    \/ ClearMarkers

SpecReload == InitReload /\ [][NextReload]_vars

\* C36: the scannedItems list never holds two records with the same code: a
\* code that is in the persisted store (loaded from an earlier session, or
\* persisted before Clear Markers was pressed) is not added a second time.
C36_NoCodeStoredTwice ==
    \A i, j \in 1..Len(scannedItems) :
        scannedItems[i].code = scannedItems[j].code => i = j

----------------------------------------------------------------------------
(* The utility functions of qrDetectionUtils.ts, which work on track        *)
(* objects by value, composed in the order of the loop body of              *)
(* onCodeScanned and set beside what that loop body does.                   *)

\* an update that would keep the old position
updateTrackUtil_KeepsFrame(track, frame, timestamp) ==
    [code |-> track.code, frame |-> track.frame, hitCount |-> track.hitCount + 1,
     lastSeen |-> timestamp]

\* updateTrack of qrDetectionUtils.ts: a new object, { ...track, hitCount:
\* track.hitCount + 1, frame: { ...frame }, lastSeen: timestamp }
updateTrackUtil(track, frame, timestamp) ==
    [code |-> track.code, frame |-> frame, hitCount |-> track.hitCount + 1,
     lastSeen |-> timestamp]

\* createTrack of qrDetectionUtils.ts
createTrackUtil(code, frame, timestamp) ==
    [code |-> code, frame |-> frame, hitCount |-> 1, lastSeen |-> timestamp]

\* isQRConfirmed of qrDetectionUtils.ts
isQRConfirmedUtil(track, n) == track.hitCount >= n

\* the track objects an array of references stands for
Values(h, tracks) == [i \in 1..Len(tracks) |-> h[tracks[i]]]

\* one detection through the utility functions: the validator, the matcher,
\* then the update and the confirmation test, or the creation. The tests the
\* utilities have no counterpart for (no value, no frame, code already in the
\* scanned set) stay where the loop body has them. The result is the
\* registry and whether the detection is confirmed.
ComposeUtils(tracks, scanned, d, timestamp, n) ==
    IF d.value = EmptyValue \/ d.frame = NoFrame
    THEN [tracks |-> tracks, confirmed |-> FALSE]
    ELSE IF ~isValidQRDetection(d.frame, viewfinderRect, SCREEN_W, SCREEN_H, screenConfig)
    THEN [tracks |-> tracks, confirmed |-> FALSE]
    ELSE IF d.value \in scanned
    THEN [tracks |-> tracks, confirmed |-> FALSE]
    ELSE LET index == findMatchingTrack(d.value, d.frame, tracks,
                                        <<IOU_THRESHOLD_NUM, IOU_THRESHOLD_DEN>>)
         IN  IF index # 0
             THEN LET updated == updateTrackUtil(tracks[index], d.frame, timestamp)
                  IN  [tracks |-> [tracks EXCEPT ![index] = updated],
                       confirmed |-> isQRConfirmedUtil(updated, n)]
             ELSE [tracks |-> Append(tracks, createTrackUtil(d.value, d.frame, timestamp)),
                   confirmed |-> FALSE]

\* the step confirms a code: it calls setScannedCodes and addScan
Confirms == issued' = issued + 1

\* C37: every iteration of the loop body of onCodeScanned leaves the registry
\* the callback is building, and decides on the confirmation, as the utility
\* functions isValidQRDetection, findMatchingTrack, updateTrack, createTrack
\* and isQRConfirmed do when they are applied in the same order to the same
\* registry, scanned set and detection; so a whole batch does as well.
C37_InlineEqualsUtilities ==
    [][\A d \in Detections :
          ProcessDetection(d) =>
              LET composed == ComposeUtils(Values(heap, newTracks), view.scannedCodes,
                                           d, frameNow, threshold)
              IN  /\ Values(heap', newTracks') = composed.tracks
                  /\ Confirms <=> composed.confirmed]_vars

\* one callback has created a track for CodeA, rejected a detection outside
\* the viewfinder, and matched the track again at a shifted position and
\* confirmed it
C37_Witness ==
    /\ pc = "scan"
    /\ codes = <<Det(CodeA, R1), Det(CodeA, ROut), Det(CodeA, R2)>>
    /\ Len(newTracks) = 1
    /\ heap[newTracks[1]] = [code |-> CodeA, frame |-> R2, hitCount |-> 2, lastSeen |-> 0]
    /\ issued = 1

====
